---- MODULE Spec2Model ----
(***************************************************************************)
(* A model of arazu (src/arazu.py): the `init` and `deploy` commands of    *)
(* the command line tool, one process invocation after the other, with    *)
(* the file system, the source repository, the staging (deploy) folder    *)
(* and the deploy remote as state.  External commands (git, cp, the       *)
(* user's build command) are the environment: each one either succeeds    *)
(* or fails, and the code's reaction to the exit status is modelled.      *)
(***************************************************************************)
EXTENDS Integers, Sequences, FiniteSets, TLC

\* ---------------------------------------------------------------- bounds
\* number of process invocations of one behaviour
MaxRuns == 2

\* ------------------------------------------------------- program constants
DEFAULT_CONFIG_PATH == "arazu.yaml"
COMMIT_MESSAGE_FILEPATH == ".arazu_commit_message"

\* a second path, for --config PATH
OtherPath == "other.yaml"
Paths == {DEFAULT_CONFIG_PATH, OtherPath}

\* Python's None, and a key that a document does not define
None == "<None>"
Absent == [absent |-> TRUE]

\* the keys of a configuration document that the program reads
Fields == {"source-repo", "deploy-repo", "deploy-branch",
           "build-command", "build-folder", "commit-template"}

\* a YAML scalar as written in a document: quoted or plain text
Tok(q, t) == [quoted |-> q, text |-> t]

\* the commit templates of the model: the template's, and one that names a
\* replacement field the program does not supply
TemplateDefault == "Deploy {date}\n\nSHA: {sha}\n"
TemplateBadField == "Deploy {oops}"

\* the text written by `arazu init`
CONFIG_TEMPLATE_RAW ==
    [f \in Fields |->
        CASE f = "source-repo"     -> Tok(TRUE, "fill this in - no branch name")
          [] f = "deploy-repo"     -> Tok(TRUE, "fill this in - no branch name")
          [] f = "deploy-branch"   -> Tok(FALSE, "gh-pages")
          [] f = "build-command"   -> Tok(TRUE, "fill this in")
          [] f = "build-folder"    -> Tok(TRUE, "fill this in")
          [] f = "commit-template" -> Tok(TRUE, TemplateDefault)]

\* yaml.load of one scalar: quotes are stripped, a plain empty scalar or ~
\* is None
yaml_scalar(tok) ==
    IF tok.quoted THEN tok.text
    ELSE IF tok.text \in {"", "~"} THEN None
    ELSE tok.text

\* a load that fills in the template's value for a key the document lacks
yaml_load_defaults(raw) ==
    [f \in Fields |-> IF raw[f] # Absent THEN yaml_scalar(raw[f])
                      ELSE yaml_scalar(CONFIG_TEMPLATE_RAW[f])]

\* yaml.load of a document: a mapping of the keys the document defines
yaml_load(raw) ==
    [f \in {g \in Fields : raw[g] # Absent} |-> yaml_scalar(raw[f])]

\* defaults that are not the ones of the text `arazu init` writes
config_template_stale ==
    [f \in Fields |-> IF f \in {"build-command", "build-folder", "source-repo",
                                 "deploy-repo"}
                      THEN "fill me in"
                      ELSE yaml_scalar(CONFIG_TEMPLATE_RAW[f])]

config_template == yaml_load(CONFIG_TEMPLATE_RAW)

\* the scalars a user may have written for each key
RawValues(f) ==
    CASE f = "source-repo"     -> {CONFIG_TEMPLATE_RAW[f], Tok(FALSE, "git@src:site")}
      [] f = "deploy-repo"     -> {CONFIG_TEMPLATE_RAW[f], Tok(FALSE, "git@pages:site")}
      [] f = "deploy-branch"   -> {CONFIG_TEMPLATE_RAW[f], Absent}
      [] f = "build-command"   -> {CONFIG_TEMPLATE_RAW[f], Tok(FALSE, "fill this in"),
                                   Tok(FALSE, "make"), Tok(TRUE, ""), Tok(FALSE, "~"),
                                   Absent}
      [] f = "build-folder"    -> {CONFIG_TEMPLATE_RAW[f], Tok(FALSE, "dist"), Absent}
      [] f = "commit-template" -> {CONFIG_TEMPLATE_RAW[f], Tok(TRUE, TemplateBadField),
                                   Absent}

RawDocs == {d \in [Fields -> UNION {RawValues(f) : f \in Fields}] :
               \A f \in Fields : d[f] \in RawValues(f)}

\* what a path of the file system holds
NoFile == [kind |-> "nofile"]
Unreadable == [kind |-> "unreadable"]
Garbage == [kind |-> "garbage"]
EmptyFile == [kind |-> "empty"]
DocFile(raw) == [kind |-> "doc", raw |-> raw]
Contents == {NoFile, Unreadable, Garbage, EmptyFile} \cup {DocFile(d) : d \in RawDocs}

\* -------------------------------------------------------- validation
\* the order in which parse_config hands the fields to validate_not_default
RequiredFields == <<"build-command", "build-folder", "source-repo", "deploy-repo">>

\* a validation that reports the last offending field, not the first
RECURSIVE validate_last(_, _)
validate_last(config, fields) ==
    IF fields = <<>> THEN [error |-> "none", field |-> None]
    ELSE LET field == fields[Len(fields)] IN
         IF field \notin DOMAIN config
            THEN [error |-> "KeyError", field |-> field]
         ELSE IF config[field] = config_template[field]
            THEN [error |-> "invalid config", field |-> field]
         ELSE validate_last(config, SubSeq(fields, 1, Len(fields) - 1))

\* validate_not_default: the outcome of the loop over `fields`.  A key the
\* mapping lacks raises KeyError at config[field]; a value equal to the
\* template's aborts with a message naming the field.
RECURSIVE validate_not_default(_, _)
validate_not_default(config, fields) ==
    IF fields = <<>> THEN [error |-> "none", field |-> None]
    ELSE LET field == Head(fields) IN
         IF field \notin DOMAIN config
            THEN [error |-> "KeyError", field |-> field]
         ELSE IF config[field] = config_template[field]
            THEN [error |-> "invalid config", field |-> field]
         ELSE validate_not_default(config, Tail(fields))

\* parse_config: the outcome for what the path holds
parse_config(content) ==
    CASE content.kind = "nofile"     -> [error |-> "could not find config file", field |-> None]
      [] content.kind = "unreadable" -> [error |-> "failed to open config file", field |-> None]
      [] content.kind = "garbage"    -> [error |-> "failed to parse config file", field |-> None]
      [] content.kind = "empty"      -> [error |-> "TypeError", field |-> None]
      [] content.kind = "doc"        ->
            validate_not_default(yaml_load(content.raw), RequiredFields)

\* ------------------------------------------------------------- state
VARIABLES
    files,              \* file system: what each configuration path holds
    remote,             \* the deploy branch of the deploy repository
    runs,               \* process invocations started so far
    prev,               \* command and exit code of the previous invocation
    pc,                 \* position of the running process
    cmd,                \* args.command
    args,               \* args.config and args.dry_run
    config,             \* self.config
    error,              \* the error the process reported
    pending,            \* the exception propagating out of deploy's try block
    exitCode,           \* exit code of the process, once it has ended
    trace,              \* the external steps executed, in order
    workTree,           \* state of the source working tree
    headOk,             \* whether HEAD of the source repository resolves
    headSha,            \* the commit HEAD of the source repository names
    buildCount,         \* invocations of the build command
    latest_commit_sha,  \* deploy's local of that name
    cwd,                \* working directory of the process
    staging,            \* the deploy folder and the repository inside it
    commit_message,     \* deploy's local of that name
    pushes,             \* pushes executed by the running process
    pushed              \* the commits the running process pushed

vars == <<files, remote, runs, prev, pc, cmd, args, config, error, pending,
          exitCode, trace, workTree, headOk, headSha, buildCount,
          latest_commit_sha, cwd, staging, commit_message, pushes, pushed>>

procVars == <<cmd, args>>
srcVars == <<workTree, headOk, headSha>>

Commands == {"init", "deploy"}
TreeStates == {"clean", "unstaged", "staged"}
Shas == {"sha-a", "sha-b"}
NoConfig == yaml_load([f \in Fields |-> Absent])
\* the deploy folder: marker is the content of the commit message file and
\* commits the commits made in the folder's repository, each a sequence of
\* at most one element; changed tells whether the copied build output
\* differs from the tree of the branch that was checked out
NoStaging == [exists |-> FALSE, repo |-> FALSE, remoteAdded |-> FALSE,
              fetched |-> FALSE, branch |-> None, parent |-> FALSE,
              copied |-> FALSE, changed |-> FALSE, marker |-> <<>>,
              index |-> {},
              commits |-> <<>>]
NoPrev == [wrote |-> FALSE]

Init ==
    /\ files \in [Paths -> Contents]
    /\ \E p \in Paths : files[p] = NoFile
    /\ remote \in {[exists |-> FALSE, height |-> 0], [exists |-> TRUE, height |-> 1]}
    /\ runs = 0
    /\ prev = NoPrev
    /\ pc = "idle"
    /\ cmd = None
    /\ args = [config |-> DEFAULT_CONFIG_PATH, dry_run |-> FALSE]
    /\ config = NoConfig
    /\ error = [error |-> "none", field |-> None]
    /\ pending = "none"
    /\ exitCode = 0
    /\ trace = <<>>
    /\ workTree = "clean"
    /\ headOk = TRUE
    /\ headSha = "sha-a"
    /\ buildCount = 0
    /\ latest_commit_sha = None
    /\ cwd = "source"
    /\ staging = NoStaging
    /\ commit_message = None
    /\ pushes = 0
    /\ pushed = <<>>

\* one entry of the trace: the step, the working directory it ran in, its
\* outcome, and the commit HEAD of the source repository named at the time
Step(name, ok) == [step |-> name, cwd |-> cwd, ok |-> ok, head |-> headSha]

\* the process ends with the given exit code
Exit(code) ==
    /\ pc' = "done"
    /\ exitCode' = code

\* abort: log the message and raise AbortError.  Outside deploy's try block
\* nothing catches it and the interpreter exits with code 1.
abort(err) ==
    /\ error' = err
    /\ Exit(1)

\* a call_or_fail that reports through abort
call_or_fail_aborts == "AbortError"

\* call_or_fail: what it raises when the command's status is not 0
call_or_fail_raises == "SystemExit"

\* the except clause of deploy's try block: AbortError is logged and
\* dropped, any other exception keeps propagating
except_AbortError(exc) == IF exc = "AbortError" THEN "none" ELSE exc

\* an exception raised inside deploy's try block: through the except clause
\* to the finally clause
RaiseInTry(exc) ==
    /\ pending' = except_AbortError(exc)
    /\ pc' = "finally"

\* main: parse the arguments and dispatch on the command.  The source
\* repository is in whatever state the user left it in.
Start(c, path, dry) ==
    /\ pc \in {"idle", "done"}
    /\ runs < MaxRuns
    /\ runs' = runs + 1
    /\ prev' = [wrote |-> pc = "done" /\ cmd = "init" /\ exitCode = 0]
    /\ cmd' = c
    /\ args' = [config |-> path, dry_run |-> dry]
    /\ pc' = IF c = "deploy" THEN "parse_config" ELSE "create_config"
    /\ config' = NoConfig
    /\ error' = [error |-> "none", field |-> None]
    /\ pending' = "none"
    /\ exitCode' = 0
    /\ trace' = <<>>
    /\ workTree' \in TreeStates
    /\ headOk' \in BOOLEAN
    /\ UNCHANGED headSha
    /\ buildCount' = 0
    /\ latest_commit_sha' = None
    /\ cwd' = "source"
    /\ staging' = NoStaging
    /\ commit_message' = None
    /\ pushes' = 0
    /\ pushed' = <<>>
    /\ UNCHANGED <<files, remote>>

\* an init that writes the template over a file that is there
create_config_overwrites ==
    /\ pc = "create_config"
    /\ files' = [files EXCEPT ![DEFAULT_CONFIG_PATH] = DocFile(CONFIG_TEMPLATE_RAW)]
    /\ Exit(0)
    /\ UNCHANGED <<remote, runs, prev, procVars, config, error, pending, trace,
                   srcVars, buildCount, latest_commit_sha, cwd, staging,
                   commit_message, pushes, pushed>>

\* Arazu.create_config
create_config ==
    /\ pc = "create_config"
    /\ IF files[DEFAULT_CONFIG_PATH].kind # "nofile"
          THEN /\ abort([error |-> "config file already exists", field |-> None])
               /\ UNCHANGED files
          ELSE \E io \in {"ok", "open fails", "write fails"} :
                  CASE io = "ok" ->
                         /\ files' = [files EXCEPT ![DEFAULT_CONFIG_PATH] =
                                          DocFile(CONFIG_TEMPLATE_RAW)]
                         /\ Exit(0)
                         /\ UNCHANGED error
                    [] io = "open fails" ->
                         /\ abort([error |-> "failed to write config file", field |-> None])
                         /\ UNCHANGED files
                    [] io = "write fails" ->
                         /\ files' = [files EXCEPT ![DEFAULT_CONFIG_PATH] = EmptyFile]
                         /\ abort([error |-> "failed to write config file", field |-> None])
    /\ UNCHANGED <<remote, runs, prev, procVars, config, pending, trace, srcVars,
                   buildCount, latest_commit_sha, cwd, staging, commit_message,
                   pushes, pushed>>

\* Arazu.deploy, line 168: self.parse_config(self.args.config)
ParseConfig ==
    /\ pc = "parse_config"
    /\ LET res == parse_config(files[args.config]) IN
       IF res.error = "none"
          THEN /\ config' = yaml_load(files[args.config].raw)
               /\ pc' = "check_changes"
               /\ UNCHANGED <<error, exitCode>>
          ELSE /\ abort(res)
               /\ UNCHANGED config
    /\ UNCHANGED <<files, remote, runs, prev, procVars, pending, trace, srcVars,
                   buildCount, latest_commit_sha, cwd, staging, commit_message,
                   pushes, pushed>>

\* exit status of `git diff --no-ext-diff --quiet --exit-code`: the command
\* compares the working tree with the index, so it reports modifications of
\* tracked files that are not staged, and nothing else
git_diff(tree) == IF tree = "unstaged" THEN 1 ELSE 0

\* Arazu.deploy: look for local changes
CheckLocalChanges ==
    /\ pc = "check_changes"
    /\ LET changes == git_diff(workTree) IN
       /\ trace' = Append(trace, Step("git diff", changes = 0))
       /\ IF changes # 0
             THEN abort([error |-> "arazu cannot deploy with local changes",
                         field |-> None])
             ELSE /\ pc' = "rev_parse"
                  /\ UNCHANGED <<error, exitCode>>
    /\ UNCHANGED <<files, remote, runs, prev, procVars, config, pending, srcVars,
                   buildCount, latest_commit_sha, cwd, staging, commit_message,
                   pushes, pushed>>

\* the line `git rev-parse HEAD` writes to its standard output: the commit
\* hash, or, when HEAD does not resolve, the word HEAD or nothing
rev_parse_output(ok, sha) == IF ok THEN {sha} ELSE {"HEAD", ""}

\* Arazu.deploy: read the hash of the source commit.  The status of the
\* command is not looked at.
ResolveSha ==
    /\ pc = "rev_parse"
    /\ trace' = Append(trace, Step("git rev-parse HEAD", headOk))
    /\ latest_commit_sha' \in rev_parse_output(headOk, headSha)
    /\ pc' = "build"
    /\ UNCHANGED <<files, remote, runs, prev, procVars, config, error, pending,
                   exitCode, srcVars, buildCount, cwd, staging, commit_message,
                   pushes, pushed>>

\* a build step that does not look at the status of the command
RunBuildIgnoresStatus ==
    /\ pc = "build"
    /\ \E rc \in {0, 2} :
          /\ buildCount' = buildCount + 1
          /\ trace' = Append(trace, Step("build", rc = 0))
          /\ pc' = "mkdtemp"
    /\ UNCHANGED <<files, remote, runs, prev, procVars, config, error, pending,
                   exitCode, srcVars, latest_commit_sha, cwd, staging,
                   commit_message, pushes, pushed>>

\* a build step that skips the command only when it is None
RunBuildUnlessNone ==
    /\ pc = "build"
    /\ IF config["build-command"] # None
          THEN \E rc \in {0, 2}, sha \in Shas :
                  /\ buildCount' = buildCount + 1
                  /\ trace' = Append(trace, Step("build", rc = 0))
                  /\ headSha' = sha
                  /\ IF rc # 0 THEN Exit(1)
                     ELSE pc' = "mkdtemp" /\ UNCHANGED exitCode
          ELSE /\ pc' = "mkdtemp"
               /\ UNCHANGED <<buildCount, trace, headSha, exitCode>>
    /\ UNCHANGED <<files, remote, runs, prev, procVars, config, error, pending,
                   workTree, headOk, latest_commit_sha, cwd, staging,
                   commit_message, pushes, pushed>>

\* Arazu.deploy: run the build command, unless it is '' or None.  The
\* command is arbitrary: it may exit with any status and may move HEAD.
RunBuild ==
    /\ pc = "build"
    /\ IF config["build-command"] \notin {"", None}
          THEN \E rc \in {0, 2}, sha \in Shas :
                  /\ buildCount' = buildCount + 1
                  /\ trace' = Append(trace, Step("build", rc = 0))
                  /\ headSha' = sha
                  /\ IF rc # 0 THEN Exit(1)
                     ELSE pc' = "mkdtemp" /\ UNCHANGED exitCode
          ELSE /\ pc' = "mkdtemp"
               /\ UNCHANGED <<buildCount, trace, headSha, exitCode>>
    /\ UNCHANGED <<files, remote, runs, prev, procVars, config, error, pending,
                   workTree, headOk, latest_commit_sha, cwd, staging,
                   commit_message, pushes, pushed>>

\* a creation of the deploy folder that does not change into it
CreateStagingNoChdir ==
    /\ pc = "mkdtemp"
    /\ \E ok \in BOOLEAN :
          /\ trace' = Append(trace, Step("mkdtemp", ok))
          /\ IF ok
                THEN /\ staging' = [staging EXCEPT !.exists = TRUE]
                     /\ pc' = "git_init"
                     /\ UNCHANGED exitCode
                ELSE /\ Exit(1)
                     /\ UNCHANGED staging
    /\ UNCHANGED <<files, remote, runs, prev, procVars, config, error, pending,
                   srcVars, buildCount, latest_commit_sha, cwd, commit_message,
                   pushes, pushed>>

\* Arazu.deploy: tempfile.mkdtemp and os.chdir, before the try block
CreateStaging ==
    /\ pc = "mkdtemp"
    /\ \E ok \in BOOLEAN :
          /\ trace' = Append(trace, Step("mkdtemp", ok))
          /\ IF ok
                THEN /\ staging' = [staging EXCEPT !.exists = TRUE]
                     /\ cwd' = "staging"
                     /\ pc' = "git_init"
                     /\ UNCHANGED exitCode
                ELSE /\ Exit(1)
                     /\ UNCHANGED <<staging, cwd>>
    /\ UNCHANGED <<files, remote, runs, prev, procVars, config, error, pending,
                   srcVars, buildCount, latest_commit_sha, commit_message,
                   pushes, pushed>>

\* what the steps of the try block leave alone
TryFrame == <<files, runs, prev, procVars, config, error, exitCode, srcVars,
              buildCount, latest_commit_sha, cwd>>

\* call_or_fail inside the try block: on status 0 go on at `next`, else
\* raise
CallOrFail(name, ok, next) ==
    /\ trace' = Append(trace, Step(name, ok))
    /\ IF ok THEN pc' = next /\ UNCHANGED pending
       ELSE RaiseInTry(call_or_fail_raises)

\* call_or_fail('git init')
GitInit ==
    /\ pc = "git_init"
    /\ \E ok \in BOOLEAN :
          /\ CallOrFail("git init", ok, "git_remote_add")
          /\ staging' = IF ok THEN [staging EXCEPT !.repo = TRUE] ELSE staging
    /\ UNCHANGED <<TryFrame, remote, commit_message, pushes, pushed>>

\* call_or_fail('git remote add deploy %s' % self.config['deploy-repo'])
GitRemoteAdd ==
    /\ pc = "git_remote_add"
    /\ \E ok \in BOOLEAN :
          /\ CallOrFail("git remote add", ok, "git_fetch")
          /\ staging' = IF ok THEN [staging EXCEPT !.remoteAdded = TRUE] ELSE staging
    /\ UNCHANGED <<TryFrame, remote, commit_message, pushes, pushed>>

\* deploy_branch = self.config['deploy-branch'], then
\* call_or_fail('git fetch deploy')
GitFetch ==
    /\ pc = "git_fetch"
    /\ IF "deploy-branch" \notin DOMAIN config
          THEN /\ RaiseInTry("KeyError")
               /\ UNCHANGED <<trace, staging>>
          ELSE \E ok \in BOOLEAN :
                  /\ CallOrFail("git fetch", ok, "git_checkout")
                  /\ staging' = IF ok THEN [staging EXCEPT !.fetched = TRUE] ELSE staging
    /\ UNCHANGED <<TryFrame, remote, commit_message, pushes, pushed>>

\* a checkout whose failure is fatal
GitCheckoutStrict ==
    /\ pc = "git_checkout"
    /\ CallOrFail("git checkout", remote.exists, "copy")
    /\ staging' = IF remote.exists
                  THEN [staging EXCEPT !.branch = config["deploy-branch"],
                                       !.parent = TRUE]
                  ELSE staging
    /\ UNCHANGED <<TryFrame, remote, commit_message, pushes, pushed>>

\* subprocess.call('git checkout %s' % deploy_branch): the branch is checked
\* out when the fetched remote has it; the status decides whether the
\* branch is created
GitCheckout ==
    /\ pc = "git_checkout"
    /\ LET result == IF remote.exists THEN 0 ELSE 1 IN
       /\ trace' = Append(trace, Step("git checkout", result = 0))
       /\ IF result # 0
             THEN pc' = "git_checkout_b" /\ UNCHANGED staging
             ELSE /\ pc' = "copy"
                  /\ staging' = [staging EXCEPT !.branch = config["deploy-branch"],
                                                !.parent = TRUE]
    /\ UNCHANGED <<TryFrame, remote, pending, commit_message, pushes, pushed>>

\* call_or_fail('git checkout -b %s' % deploy_branch)
GitCheckoutNew ==
    /\ pc = "git_checkout_b"
    /\ \E ok \in BOOLEAN :
          /\ CallOrFail("git checkout -b", ok, "copy")
          /\ staging' = IF ok THEN [staging EXCEPT !.branch = config["deploy-branch"]]
                        ELSE staging
    /\ UNCHANGED <<TryFrame, remote, commit_message, pushes, pushed>>

\* what a copy of the build output can do to the work tree of the deploy
\* folder: over a branch that was checked out it may change nothing, in a
\* branch without a commit every copied file is new
copy_changes(st) == IF st.parent THEN BOOLEAN ELSE {TRUE}

\* call_or_fail('cp -r <original_path>/<build-folder>/* .')
CopyBuild ==
    /\ pc = "copy"
    /\ \E ok \in BOOLEAN, ch \in copy_changes(staging) :
          /\ CallOrFail("cp", ok, "compose")
          /\ staging' = IF ok THEN [staging EXCEPT !.copied = TRUE, !.changed = ch]
                        ELSE staging
    /\ UNCHANGED <<TryFrame, remote, commit_message, pushes, pushed>>

\* the replacement fields of a commit template
TemplateFields(t) ==
    CASE t = TemplateDefault  -> {"date", "sha"}
      [] t = TemplateBadField -> {"oops"}

\* a rendering with the two arguments exchanged
format_swapped(t, sha, date) ==
    [template |-> t,
     sha      |-> IF "sha" \in TemplateFields(t) THEN date ELSE None,
     date     |-> IF "date" \in TemplateFields(t) THEN sha ELSE None]

\* str.format(sha=..., date=...): the rendered message
format(t, sha, date) ==
    [template |-> t,
     sha      |-> IF "sha" \in TemplateFields(t) THEN sha ELSE None,
     date     |-> IF "date" \in TemplateFields(t) THEN date ELSE None]

\* Arazu.deploy: render the commit message and write it to the commit
\* message file of the deploy folder
ComposeMessage ==
    /\ pc = "compose"
    /\ IF "commit-template" \notin DOMAIN config
          THEN /\ RaiseInTry("KeyError")
               /\ UNCHANGED <<trace, staging, commit_message>>
       ELSE IF ~ (TemplateFields(config["commit-template"]) \subseteq {"date", "sha"})
          THEN /\ RaiseInTry("KeyError")
               /\ UNCHANGED <<trace, staging, commit_message>>
       ELSE \E ok \in BOOLEAN :
               /\ commit_message' = format(config["commit-template"],
                                           latest_commit_sha, "now")
               /\ trace' = Append(trace, Step("write commit message", ok))
               /\ IF ok
                     THEN /\ staging' = [staging EXCEPT !.marker = <<commit_message'>>]
                          /\ pc' = "git_add"
                          /\ UNCHANGED pending
                     ELSE /\ RaiseInTry("IOError")
                          /\ UNCHANGED staging
    /\ UNCHANGED <<TryFrame, remote, pushes, pushed>>

\* call_or_fail('git add .'): everything in the folder is staged
GitAdd ==
    /\ pc = "git_add"
    /\ \E ok \in BOOLEAN :
          /\ CallOrFail("git add", ok, "git_reset")
          /\ staging' = IF ok THEN [staging EXCEPT !.index = {"build output",
                                                     COMMIT_MESSAGE_FILEPATH}]
                        ELSE staging
    /\ UNCHANGED <<TryFrame, remote, commit_message, pushes, pushed>>

\* a reset that leaves the index as it is
GitResetKeeps ==
    /\ pc = "git_reset"
    /\ \E ok \in BOOLEAN : CallOrFail("git reset", ok, "git_commit")
    /\ UNCHANGED <<TryFrame, remote, staging, commit_message, pushes, pushed>>

\* call_or_fail('git reset %s' % commit_message_filepath)
GitReset ==
    /\ pc = "git_reset"
    /\ \E ok \in BOOLEAN :
          /\ CallOrFail("git reset", ok, "git_commit")
          /\ staging' = IF ok THEN [staging EXCEPT !.index =
                                       staging.index \ {COMMIT_MESSAGE_FILEPATH}]
                        ELSE staging
    /\ UNCHANGED <<TryFrame, remote, commit_message, pushes, pushed>>

\* the outcomes of `git commit`: with nothing to commit its status is 1
git_commit_ok(st) == IF st.changed THEN BOOLEAN ELSE {FALSE}

\* call_or_fail('git commit -F %s' % commit_message_filepath)
GitCommit ==
    /\ pc = "git_commit"
    /\ \E ok \in git_commit_ok(staging) :
          /\ CallOrFail("git commit", ok, "publish")
          /\ staging' = IF ok
                        THEN [staging EXCEPT !.commits =
                                 <<[message |-> Head(staging.marker),
                                    tree |-> staging.index,
                                    parent |-> staging.parent]>>]
                        ELSE staging
    /\ UNCHANGED <<TryFrame, remote, commit_message, pushes, pushed>>

\* `git push deploy <branch>` that succeeded: the branch of the remote ends
\* at the commit
git_push(r, commit) ==
    [exists |-> TRUE, height |-> IF commit.parent THEN r.height + 1 ELSE 1]

\* a publish step that pushes in a dry run too
PublishAlways ==
    /\ pc = "publish"
    /\ \E ok \in BOOLEAN :
          /\ trace' = Append(trace, Step("git push", ok))
          /\ IF ok THEN pc' = "finally" /\ UNCHANGED pending
             ELSE RaiseInTry("SystemExit")
          /\ pushes' = pushes + 1
          /\ pushed' = IF ok THEN pushed \o staging.commits ELSE pushed
          /\ remote' = IF ok
                       THEN [exists |-> TRUE,
                             height |-> IF Head(staging.commits).parent
                                        THEN remote.height + 1 ELSE 1]
                       ELSE remote
    /\ UNCHANGED <<files, runs, prev, procVars, config, error, exitCode, srcVars,
                   buildCount, latest_commit_sha, cwd, staging, commit_message>>

\* Arazu.deploy: in a dry run report, else push the branch
Publish ==
    /\ pc = "publish"
    /\ IF args.dry_run
          THEN /\ pc' = "finally"
               /\ UNCHANGED <<trace, pending, remote, pushes, pushed>>
          ELSE \E ok \in BOOLEAN :
                  /\ CallOrFail("git push", ok, "unlink")
                  /\ pushes' = pushes + 1
                  /\ pushed' = IF ok THEN pushed \o staging.commits ELSE pushed
                  /\ remote' = IF ok THEN git_push(remote, Head(staging.commits))
                               ELSE remote
    /\ UNCHANGED <<TryFrame, staging, commit_message>>

\* a deletion of the commit message file that can fail
UnlinkMayFail ==
    /\ pc = "unlink"
    /\ \E ok \in BOOLEAN :
          /\ trace' = Append(trace, Step("unlink", ok))
          /\ staging' = IF ok THEN [staging EXCEPT !.marker = <<>>] ELSE staging
          /\ IF ok THEN pc' = "finally" /\ UNCHANGED pending
             ELSE RaiseInTry("OSError")
    /\ UNCHANGED <<TryFrame, remote, commit_message, pushes, pushed>>

\* os.unlink(commit_message_filepath), after the push
UnlinkMarker ==
    /\ pc = "unlink"
    /\ trace' = Append(trace, Step("unlink", TRUE))
    /\ staging' = [staging EXCEPT !.marker = <<>>]
    /\ pc' = "finally"
    /\ UNCHANGED <<TryFrame, remote, pending, commit_message, pushes, pushed>>

\* a cleanup that leaves the folder where it is
rmtree_keeps(st, ok) == st

\* shutil.rmtree(deploy_folder)
rmtree(st, ok) == IF ok THEN NoStaging ELSE st

\* a cleanup in which a failure to delete ends the process with code 1
CleanupFatal ==
    /\ pc = "finally"
    /\ \E ok \in BOOLEAN :
          /\ trace' = Append(trace, Step("rmtree", ok))
          /\ staging' = rmtree(staging, ok)
          /\ Exit(IF pending # "none" \/ ~ ok THEN 1 ELSE 0)
    /\ UNCHANGED <<files, remote, runs, prev, procVars, config, error, pending,
                   srcVars, buildCount, latest_commit_sha, cwd, commit_message,
                   pushes, pushed>>

\* the finally clause of deploy's try block: delete the deploy folder; a
\* failure to delete is logged.  Then the pending exception, if any, ends
\* the process with code 1; otherwise deploy and main return.
Cleanup ==
    /\ pc = "finally"
    /\ \E ok \in BOOLEAN :
          /\ trace' = Append(trace, Step("rmtree", ok))
          /\ staging' = rmtree(staging, ok)
    /\ Exit(IF pending # "none" THEN 1 ELSE 0)
    /\ UNCHANGED <<files, remote, runs, prev, procVars, config, error, pending,
                   srcVars, buildCount, latest_commit_sha, cwd, commit_message,
                   pushes, pushed>>

Next ==
    \/ \E c \in Commands, path \in Paths, dry \in BOOLEAN : Start(c, path, dry)
    \/ create_config
    \/ ParseConfig
    \/ CheckLocalChanges
    \/ ResolveSha
    \/ RunBuild
    \/ CreateStaging
    \/ GitInit
    \/ GitRemoteAdd
    \/ GitFetch
    \/ GitCheckout
    \/ GitCheckoutNew
    \/ CopyBuild
    \/ ComposeMessage
    \/ GitAdd
    \/ GitReset
    \/ GitCommit
    \/ Publish
    \/ UnlinkMarker
    \/ Cleanup

Spec == Init /\ [][Next]_vars

\* ------------------------------------------------------------ properties
Ran(name) == \E i \in DOMAIN trace : trace[i].step = name
Succeeded(name) == \E i \in DOMAIN trace : trace[i].step = name /\ trace[i].ok
Failed(name) == \E i \in DOMAIN trace : trace[i].step = name /\ ~ trace[i].ok
StepNames == [i \in DOMAIN trace |-> trace[i].step]
DeployDone == cmd = "deploy" /\ pc = "done"
BuildWanted == "build-command" \in DOMAIN config
               /\ config["build-command"] \notin {"", None}

\* every step before the push was executed and succeeded
StepsBeforePushSucceeded ==
    /\ error.error = "none"
    /\ Succeeded("git diff")
    /\ Ran("git rev-parse HEAD")
    /\ BuildWanted => Succeeded("build")
    /\ Succeeded("mkdtemp")
    /\ Succeeded("git init")
    /\ Succeeded("git remote add")
    /\ Succeeded("git fetch")
    /\ Succeeded("git checkout") \/ Succeeded("git checkout -b")
    /\ Succeeded("cp")
    /\ Succeeded("write commit message")
    /\ Succeeded("git add")
    /\ Succeeded("git reset")
    /\ Succeeded("git commit")

\* every step of the lifecycle was executed and succeeded
FullSuccess ==
    /\ StepsBeforePushSucceeded
    /\ Succeeded("git rev-parse HEAD")
    /\ args.dry_run \/ Succeeded("git push")

\* C1: after a dry-run deploy that created the deploy folder has ended,
\* whether it succeeded or failed, the folder still exists, and it holds the
\* commit message file if the run got as far as writing it.
C1_DryRunKeepsStaging ==
    (DeployDone /\ args.dry_run /\ Succeeded("mkdtemp"))
        => /\ staging.exists
           /\ Succeeded("write commit message") => staging.marker # <<>>

\* C2: after a deploy without --dry-run that created the deploy folder has
\* ended, on whatever path, the recursive delete was run, and the folder is
\* gone if the delete succeeded.
C2_StagingRemoved ==
    (DeployDone /\ ~ args.dry_run /\ Succeeded("mkdtemp"))
        => (Ran("rmtree") /\ (Succeeded("rmtree") => ~ staging.exists))

C2_Witness ==
    /\ DeployDone /\ ~ args.dry_run
    /\ Failed("git commit")
    /\ Succeeded("rmtree")
    /\ ~ staging.exists

\* C3: a deploy started on a source working tree with uncommitted changes of
\* any kind never runs the build command, creates no deploy folder, pushes
\* nothing, and ends with exit code 1.
C3_DirtyTreeStopsDeploy ==
    (cmd = "deploy" /\ workTree # "clean")
        => /\ buildCount = 0
           /\ ~ Ran("mkdtemp")
           /\ pushes = 0
           /\ pc = "done" => exitCode = 1

\* C4: a deploy ends with exit code 0 exactly when every step of the
\* lifecycle succeeded, and with exit code 1 otherwise.
C4_ExitCodeContract ==
    DeployDone => /\ exitCode \in {0, 1}
                  /\ exitCode = 0 <=> FullSuccess

\* the first required field, in validation order, that the document sets to
\* the placeholder of the template
Offending(content) ==
    {i \in DOMAIN RequiredFields :
        /\ content.raw[RequiredFields[i]] # Absent
        /\ yaml_scalar(content.raw[RequiredFields[i]])
              = yaml_scalar(CONFIG_TEMPLATE_RAW[RequiredFields[i]])}
FirstOffending(content) ==
    CHOOSE i \in Offending(content) : \A j \in Offending(content) : i <= j
HasPlaceholder(content) == content.kind = "doc" /\ Offending(content) # {}
Loaded == cmd = "deploy" /\ pc # "parse_config"
NothingRan ==
    /\ trace = <<>>
    /\ buildCount = 0
    /\ ~ staging.exists
    /\ pushes = 0
    /\ pc = "done" /\ exitCode = 1

\* C5 as stated: loading any document in which a required field equals the
\* placeholder fails with an invalid-config error naming the first such
\* field, and no later step of deploy runs.
C5_Original ==
    (Loaded /\ HasPlaceholder(files[args.config]))
        => /\ error.error = "invalid config"
           /\ error.field = RequiredFields[FirstOffending(files[args.config])]
           /\ NothingRan

\* the required fields that precede the first offending one are all defined
PrecedingDefined(content) ==
    \A j \in 1 .. (FirstOffending(content) - 1) :
        content.raw[RequiredFields[j]] # Absent

\* C5: loading a document in which a required field equals the placeholder,
\* and which defines every required field that precedes the first such
\* field in validation order, fails with an invalid-config error naming that
\* field, and no later step of deploy runs.
C5_FirstOffendingNamed ==
    (Loaded /\ HasPlaceholder(files[args.config])
            /\ PrecedingDefined(files[args.config]))
        => /\ error.error = "invalid config"
           /\ error.field = RequiredFields[FirstOffending(files[args.config])]
           /\ NothingRan

C5_Witness ==
    /\ Loaded
    /\ HasPlaceholder(files[args.config])
    /\ Cardinality(Offending(files[args.config])) >= 2
    /\ FirstOffending(files[args.config]) = 2
    /\ error.field = "build-folder"

\* C6: once the build command has exited with a status other than 0, the
\* process has ended with exit code 1, no deploy folder was created and
\* nothing was fetched, committed or pushed.
C6_BuildFailureIsFatal ==
    (cmd = "deploy" /\ Failed("build"))
        => /\ pc = "done" /\ exitCode = 1
           /\ ~ Ran("mkdtemp") /\ ~ staging.exists
           /\ ~ Ran("git fetch") /\ ~ Ran("git commit") /\ ~ Ran("git push")
           /\ pushes = 0 /\ pushed = <<>>

C6_Witness == cmd = "deploy" /\ Failed("build") /\ pc = "done"

\* C7: a push is executed only outside a dry run and only after every
\* preceding step has succeeded, and a process executes at most one push.
C7_PushOnlyAfterSuccess ==
    /\ pushes <= 1
    /\ Len(pushed) <= pushes
    /\ pushes = 1 <=> Ran("git push")
    /\ Ran("git push") => (~ args.dry_run /\ StepsBeforePushSucceeded)

C7_Witness == DeployDone /\ Succeeded("git push") /\ Len(pushed) = 1

\* C8: when HEAD of the source repository does not resolve, deploy ends at
\* that step with exit code 1: no build, no deploy folder, no commit.
C8_UnresolvedShaIsFatal ==
    (cmd = "deploy" /\ Failed("git rev-parse HEAD"))
        => /\ pc = "done" /\ exitCode = 1
           /\ buildCount = 0
           /\ ~ Ran("mkdtemp")
           /\ staging.commits = <<>>
           /\ pushed = <<>>

\* the order of the steps of a successful deploy that pushes
ExpectedSteps ==
    <<"git diff", "git rev-parse HEAD">>
    \o (IF BuildWanted THEN <<"build">> ELSE <<>>)
    \o <<"mkdtemp", "git init", "git remote add", "git fetch", "git checkout">>
    \o (IF Failed("git checkout") THEN <<"git checkout -b">> ELSE <<>>)
    \o <<"cp", "write commit message", "git add", "git reset", "git commit",
         "git push", "unlink", "rmtree">>

C10_InitThenLoadFails ==
    (Loaded /\ prev.wrote /\ args.config = DEFAULT_CONFIG_PATH)
        => /\ error.error = "invalid config"
           /\ pc = "done" /\ exitCode = 1
           /\ trace = <<>>

C10_Witness ==
    /\ Loaded /\ prev.wrote /\ args.config = DEFAULT_CONFIG_PATH
    /\ files[DEFAULT_CONFIG_PATH] = DocFile(CONFIG_TEMPLATE_RAW)
    /\ error.field = "build-command"

\* the running deploy loaded the document at args.config without error
LoadedDoc ==
    /\ Loaded
    /\ error.error = "none"
    /\ files[args.config].kind = "doc"
OptionalFields == {"deploy-branch", "commit-template"}
Omits(f) == files[args.config].raw[f] = Absent

\* C11 as stated: a configuration loaded from a document that omits
\* deploy-branch or commit-template holds the template's value for it.
C11_Original ==
    LoadedDoc => \A f \in OptionalFields :
                    Omits(f) => /\ f \in DOMAIN config
                                /\ config[f] = config_template[f]

\* C11: a configuration loaded from a document holds exactly the keys the
\* document defines, no template value is filled in; a deploy of a document
\* without deploy-branch fails when it reads the key, after the remote was
\* added and before the fetch, and one without commit-template fails at the
\* composition of the commit message: nothing is committed or pushed and
\* the exit code is 1.
C11_NoDefaultsApplied ==
    LoadedDoc =>
        /\ DOMAIN config = {f \in Fields : ~ Omits(f)}
        /\ Omits("deploy-branch") =>
              /\ ~ Ran("git fetch")
              /\ pc \notin {"git_checkout", "git_checkout_b", "copy", "compose"}
        /\ (Omits("deploy-branch") \/ Omits("commit-template")) =>
              /\ ~ Ran("write commit message")
              /\ ~ Ran("git commit")
              /\ staging.commits = <<>>
              /\ pushes = 0
              /\ pc = "done" => exitCode = 1

C11_Witness ==
    /\ LoadedDoc
    /\ Omits("deploy-branch")
    /\ Succeeded("git remote add")
    /\ pending = "KeyError"
    /\ pc = "done" /\ exitCode = 1

\* C12: the commit message file is in the tree of no commit that deploy
\* makes or pushes: when the commit is made it has been taken out of the
\* index again.
C12_MarkerNeverCommitted ==
    /\ \A i \in DOMAIN staging.commits :
          COMMIT_MESSAGE_FILEPATH \notin staging.commits[i].tree
    /\ \A i \in DOMAIN pushed : COMMIT_MESSAGE_FILEPATH \notin pushed[i].tree
    /\ Ran("git commit") => Succeeded("git reset")

C12_Witness ==
    /\ cmd = "deploy"
    /\ Len(staging.commits) = 1
    /\ staging.marker # <<>>
    /\ staging.commits[1].tree = {"build output"}

\* the git commands that change a repository, and those that only read
MutatingGit == {"git init", "git remote add", "git fetch", "git checkout",
                "git checkout -b", "git add", "git reset", "git commit",
                "git push"}
ReadOnlyGit == {"git diff", "git rev-parse HEAD"}

\* C13: every git command that changes a repository runs with the deploy
\* folder as working directory, and the git commands that run in the source
\* directory are the query for local changes and the lookup of HEAD.
C13_SourceRepoUntouched ==
    \A i \in DOMAIN trace :
        /\ trace[i].step \in MutatingGit => trace[i].cwd = "staging"
        /\ (trace[i].cwd = "source" /\ trace[i].step \in MutatingGit \cup ReadOnlyGit)
              => trace[i].step \in ReadOnlyGit

C13_Witness ==
    /\ DeployDone
    /\ Succeeded("git push")
    /\ trace[1].cwd = "source" /\ trace[2].cwd = "source"
    /\ \E i \in DOMAIN trace : trace[i].step = "git commit" /\ trace[i].cwd = "staging"

\* every step inside deploy's try block was executed and succeeded
TrySucceeded ==
    /\ StepsBeforePushSucceeded
    /\ args.dry_run \/ Succeeded("git push")

\* C14: the outcome of the recursive delete does not enter the exit code:
\* with the delete failed or not, the code is 0 after a run whose steps all
\* succeeded and 1 after a fatal failure, and after a failed delete the
\* folder is still there.
C14_CleanupFailureNotFatal ==
    (DeployDone /\ Ran("rmtree"))
        => /\ exitCode \in {0, 1}
           /\ exitCode = 0 <=> TrySucceeded
           /\ Failed("rmtree") => staging.exists

C14_Witness ==
    /\ DeployDone
    /\ Failed("rmtree")
    /\ Succeeded("git push")
    /\ exitCode = 0
    /\ staging.exists

\* C15: init, when a file is at the default path, ends with exit code 1 and
\* leaves every file as it is; when none is there it writes the template to
\* that path and ends with exit code 0, or, if the file cannot be written,
\* reports that and ends with exit code 1.  No other path is touched.
C15_InitKeepsExistingFile ==
    [][pc = "create_config" =>
          /\ pc' = "done"
          /\ files'[OtherPath] = files[OtherPath]
          /\ files[DEFAULT_CONFIG_PATH].kind # "nofile" =>
                /\ files' = files
                /\ exitCode' = 1
          /\ files[DEFAULT_CONFIG_PATH].kind = "nofile" =>
                \/ /\ files'[DEFAULT_CONFIG_PATH] = DocFile(CONFIG_TEMPLATE_RAW)
                   /\ exitCode' = 0
                \/ /\ files'[DEFAULT_CONFIG_PATH] # DocFile(CONFIG_TEMPLATE_RAW)
                   /\ error'.error = "failed to write config file"
                   /\ exitCode' = 1]_vars

C15_Witness ==
    /\ cmd = "init" /\ pc = "done"
    /\ exitCode = 1
    /\ error.error = "config file already exists"
    /\ files[DEFAULT_CONFIG_PATH].kind = "doc"
    /\ files[DEFAULT_CONFIG_PATH] # DocFile(CONFIG_TEMPLATE_RAW)

\* the document sets build-command to the empty string or to null and
\* fills in the other required fields
EmptyBuildDoc(content) ==
    /\ content.kind = "doc"
    /\ content.raw["build-command"] \in {Tok(TRUE, ""), Tok(FALSE, "~")}
    /\ \A f \in {"build-folder", "source-repo", "deploy-repo"} :
          /\ content.raw[f] # Absent
          /\ yaml_scalar(content.raw[f]) # yaml_scalar(CONFIG_TEMPLATE_RAW[f])

\* C16: a document whose build-command is '' or null passes validation, and
\* a deploy of it runs no build: the creation of the deploy folder follows
\* the lookup of HEAD directly.
C16_EmptyBuildSkipped ==
    (Loaded /\ EmptyBuildDoc(files[args.config]))
        => /\ error.error \notin {"invalid config", "KeyError"}
           /\ "build-command" \in DOMAIN config
           /\ config["build-command"] \in {"", None}
           /\ buildCount = 0
           /\ ~ Ran("build")
           /\ Len(trace) >= 3 => /\ trace[2].step = "git rev-parse HEAD"
                                 /\ trace[3].step = "mkdtemp"
           /\ pc = "mkdtemp" => /\ Len(trace) = 2
                                /\ trace[2].step = "git rev-parse HEAD"

C16_Witness ==
    /\ Loaded /\ EmptyBuildDoc(files[args.config])
    /\ config["build-command"] = ""
    /\ Succeeded("mkdtemp")
    /\ pc = "git_init"

\* C17: once `git commit` has failed, for whatever reason, nothing is pushed
\* and the process ends with exit code 1, after the deploy folder has been
\* deleted when the run is not a dry run; a commit with nothing to commit,
\* the copied output being what the branch already holds, is such a
\* failure.
C17_CommitFailureIsFatal ==
    /\ Failed("git commit") =>
          /\ pc \in {"finally", "done"}
          /\ ~ Ran("git push") /\ pushes = 0 /\ pushed = <<>>
          /\ pc = "done" =>
                /\ exitCode = 1
                /\ ~ args.dry_run =>
                      (Ran("rmtree") /\ (Succeeded("rmtree") => ~ staging.exists))
    /\ (Ran("git commit") /\ staging.copied /\ ~ staging.changed)
          => Failed("git commit")

C17_Witness ==
    /\ DeployDone /\ ~ args.dry_run
    /\ Failed("git commit")
    /\ staging.copied /\ ~ staging.changed
    /\ Ran("rmtree")
    /\ exitCode = 1

\* C18: a failed checkout of the deploy branch, the remote not having it, is
\* followed by the creation of the branch and not by an abort; the commits
\* of such a run have no parent, and after it has pushed and ended with exit
\* code 0 the branch exists on the remote with exactly one commit.  The run
\* ends at this step only when the creation fails.
C18_MissingBranchIsCreated ==
    Failed("git checkout") =>
        /\ pc # "git_checkout_b" => Ran("git checkout -b")
        /\ (pc \in {"finally", "done"} /\ ~ Ran("cp")) => Failed("git checkout -b")
        /\ Succeeded("git checkout -b") =>
              /\ ~ staging.parent
              /\ staging.exists => staging.branch = config["deploy-branch"]
        /\ \A i \in DOMAIN staging.commits : ~ staging.commits[i].parent
        /\ (DeployDone /\ ~ args.dry_run /\ exitCode = 0) =>
              /\ remote.exists
              /\ remote.height = 1
              /\ Len(pushed) = 1 /\ ~ pushed[1].parent

C18_Witness ==
    /\ DeployDone /\ ~ args.dry_run /\ exitCode = 0
    /\ Failed("git checkout")
    /\ Succeeded("git checkout -b")
    /\ remote.exists /\ remote.height = 1

====
